---- MODULE Spec2Model ----
(***************************************************************************)
(* Model of the Telegraf -> Grafana frame converter                        *)
(* (telemetry/telegraf/convert.go).                                        *)
(*                                                                         *)
(* Strings that the code concatenates (metric names, time strings, frame   *)
(* keys) are sequences of one-character strings.  A timestamp is a natural *)
(* number; time.Time.String() is modelled by its decimal rendering.        *)
(* A field value is [kind, v]: kind is the Go dynamic type delivered by    *)
(* the Telegraf parser, v an opaque payload (floats are given in tenths).  *)
(* A tag set is a set of <<key, value>> pairs.                             *)
(***************************************************************************)
EXTENDS Integers, Sequences, FiniteSets, TLC

VARIABLES body, pc, metrics, i, frameKeyOrder, metricFrames, frameWrappers,
          err, again, prev

vars == <<body, pc, metrics, i, frameKeyOrder, metricFrames, frameWrappers,
          err, again, prev>>

(* ------------------------------ bounds --------------------------------- *)

MaxMetrics == 3

(* ------------------------------ inputs --------------------------------- *)

Names == {<<"a">>, <<"a", "_", "1">>}

Times == {1, 12}

IntValue == [kind |-> "int64", v |-> 3]
FloatValue == [kind |-> "float64", v |-> 45]
StringValue == [kind |-> "string", v |-> 7]
BoolValue == [kind |-> "bool", v |-> 1]
UintValue == [kind |-> "uint64", v |-> 9]
OtherValue == [kind |-> "other", v |-> 0]

\* Telegraf's metric keeps one entry per field key (AddField replaces the
\* value of a key it already has), in the order the keys first appear.
UniqueKeys(fs) == \A a, b \in 1..Len(fs) : a # b => fs[a].Key # fs[b].Key

\* What a record carries besides its name and time: two convertible fields;
\* one float field under the name the first uses for an integer; a
\* convertible field followed by one of a type the switch has no case for;
\* a field of a type FieldTypeFor does not know.
Payloads ==
    {[tags |-> {<<"host", "h1">>},
      fields |-> <<[Key |-> "x", Value |-> IntValue],
                   [Key |-> "y", Value |-> StringValue]>>],
     [tags |-> {<<"dc", "d1">>, <<"host", "h2">>},
      fields |-> <<[Key |-> "x", Value |-> FloatValue]>>],
     [tags |-> {<<"dc", "d1">>, <<"host", "h2">>},
      fields |-> <<[Key |-> "y", Value |-> BoolValue],
                   [Key |-> "x", Value |-> UintValue]>>],
     [tags |-> {<<"host", "h1">>},
      fields |-> <<[Key |-> "x", Value |-> OtherValue]>>]}

Records ==
    {[name |-> n, time |-> t, tags |-> p.tags, fields |-> p.fields] :
        n \in Names, t \in Times, p \in Payloads}

Batches == UNION {[1..n -> Records] : n \in 0..MaxMetrics}

(* ---------------------- external library functions --------------------- *)

Digit == <<"0", "1", "2", "3", "4", "5", "6", "7", "8", "9">>

RECURSIVE TimeString(_)
TimeString(t) ==
    IF t < 10 THEN <<Digit[t + 1]>>
    ELSE TimeString(t \div 10) \o <<Digit[(t % 10) + 1]>>

FieldTypeFor(value) ==
    CASE value.kind = "string" -> "string"
      [] value.kind = "float64" -> "float64"
      [] value.kind = "int64" -> "int64"
      [] value.kind = "bool" -> "bool"
      [] value.kind = "uint64" -> "uint64"
      [] OTHER -> "unknown"

NullableType(ft) == [item |-> ft, nullable |-> TRUE]

Null == [null |-> TRUE, v |-> 0]
Ptr(v) == [null |-> FALSE, v |-> v]

NewFieldFromFieldType(ft, n) ==
    [Name |-> "", Type |-> ft, Labels |-> {}, vals |-> [j \in 1..n |-> Null]]

HasConverter_NoFloat(ft) == ft.item \in {"string", "bool", "int64"}

\* The converter chosen by the switch on the nullable field type.
HasConverter(ft) == ft.item \in {"string", "float64", "bool", "int64"}

\* Each converter accepts a value of its own type and yields a pointer to it.
ConvertValue(ft, value) ==
    IF value.kind = ft.item THEN [err |-> "nil", v |-> Ptr(value.v)]
    ELSE [err |-> "value convert error", v |-> Null]

(* ------------------------------ the code ------------------------------- *)

getFrameKey_NameOnly(m) == m.name

getFrameKey(m) == m.name \o <<"_">> \o TimeString(m.time)

newMetricFrame_NoTime(m) ==
    [key |-> m.name,
     fields |-> <<[Name |-> "time", Type |-> [item |-> "time", nullable |-> FALSE],
                   Labels |-> {}, vals |-> <<>>]>>]

newMetricFrame(m) ==
    [key |-> m.name,
     fields |-> <<[Name |-> "time", Type |-> [item |-> "time", nullable |-> FALSE],
                   Labels |-> {}, vals |-> <<m.time>>]>>]

Key(s) == s.key

Frame(s) == [Name |-> s.key, Fields |-> s.fields]

newField_TwoRows(ft, f, m) ==
    [NewFieldFromFieldType(ft, 2) EXCEPT !.Name = f.Key, !.Labels = m.tags]

newField_NoLabels(ft, f, m) ==
    [NewFieldFromFieldType(ft, 1) EXCEPT !.Name = f.Key]

\* The field extend creates for f: one row, named after the field key and
\* labelled with the metric's tags.
newField(ft, f, m) ==
    [NewFieldFromFieldType(ft, 1) EXCEPT !.Name = f.Key, !.Labels = m.tags]

\* One iteration of extend's loop over m.FieldList(): st is the frame's field
\* list so far together with the error that stopped the loop, if any.
extendField(st, f, m) ==
    IF st.err # "nil" THEN st
    ELSE LET ft0 == FieldTypeFor(f.Value) IN
         IF ft0 = "unknown" THEN [st EXCEPT !.err = "unknown type"]
         ELSE LET ft == NullableType(ft0)
                  field == newField(ft, f, m)
              IN IF ~HasConverter(ft) THEN [st EXCEPT !.err = "no converter"]
                 ELSE LET c == ConvertValue(ft, f.Value) IN
                      IF c.err # "nil" THEN [st EXCEPT !.err = c.err]
                      ELSE [st EXCEPT !.fields =
                               Append(@, [field EXCEPT !.vals[1] = c.v])]

RECURSIVE extendFrom(_, _, _)
extendFrom(st, m, n) ==
    IF n > Len(m.fields) THEN st
    ELSE extendFrom(extendField(st, m.fields[n], m), m, n + 1)

\* A variant that does not add a field whose name the frame already has.
extend_SkipKnownNames(s, m) ==
    LET known == {s.fields[c].Name : c \in 1..Len(s.fields)}
        fresh == SelectSeq(m.fields, LAMBDA f : f.Key \notin known)
        st == extendFrom([fields |-> s.fields, err |-> "nil"],
                         [m EXCEPT !.fields = fresh], 1)
    IN [frame |-> [s EXCEPT !.fields = st.fields], err |-> st.err]

\* extend(s, m): the frame after the call and the error returned.
extend(s, m) ==
    LET st == extendFrom([fields |-> s.fields, err |-> "nil"], m, 1)
    IN [frame |-> [s EXCEPT !.fields = st.fields], err |-> st.err]

HasFrame_Never(frames, frameKey) == FALSE

\* `frame, ok := metricFrames[frameKey]`
HasFrame(frames, frameKey) == frameKey \in DOMAIN frames

NilResult == [nil |-> TRUE, items |-> <<>>]

\* A variant that hands back the frames accumulated before the failure.
ReturnError_Partial(order, frames) ==
    LET have == SelectSeq(order, LAMBDA k : k \in DOMAIN frames)
    IN [nil |-> FALSE, items |-> [n \in 1..Len(have) |-> frames[have[n]]]]

\* `return nil, err`
ReturnError(order, frames) == NilResult

\* A variant that emits the frames in the reverse of frameKeyOrder.
ReturnFrames_Reversed(order, frames) ==
    [nil |-> FALSE,
     items |-> [n \in 1..Len(order) |-> frames[order[Len(order) + 1 - n]]]]

\* The frame wrappers in frameKeyOrder.
ReturnFrames(order, frames) ==
    [nil |-> FALSE, items |-> [n \in 1..Len(order) |-> frames[order[n]]]]

(* ----------------------------- the machine ----------------------------- *)

NoFrames == [k \in {} |-> 0]

Init ==
    /\ body \in {[ok |-> TRUE, metrics |-> ms] : ms \in Batches}
                \cup {[ok |-> FALSE, metrics |-> <<>>]}
    /\ pc = "parse"
    /\ metrics = <<>>
    /\ i = 0
    /\ frameKeyOrder = <<>>
    /\ metricFrames = NoFrames
    /\ frameWrappers = NilResult
    /\ err = "nil"
    /\ again = FALSE
    /\ prev = NilResult

Parse ==
    /\ pc = "parse"
    /\ body.ok
    /\ metrics' = body.metrics
    /\ i' = 1
    /\ pc' = "loop"
    /\ UNCHANGED <<body, frameKeyOrder, metricFrames, frameWrappers, err, again, prev>>

ParseError ==
    /\ pc = "parse"
    /\ ~body.ok
    /\ err' = "error parsing metrics"
    /\ frameWrappers' = NilResult
    /\ pc' = "done"
    /\ UNCHANGED <<body, metrics, i, frameKeyOrder, metricFrames, again, prev>>

ExistingFrame ==
    /\ pc = "loop"
    /\ i <= Len(metrics)
    /\ LET m == metrics[i]
           frameKey == getFrameKey(m)
       IN /\ HasFrame(metricFrames, frameKey)
          /\ LET r == extend(metricFrames[frameKey], m) IN
             /\ r.err = "nil"
             /\ metricFrames' = [metricFrames EXCEPT ![frameKey] = r.frame]
    /\ i' = i + 1
    /\ UNCHANGED <<body, pc, metrics, frameKeyOrder, frameWrappers, err, again, prev>>

ExistingFrameError ==
    /\ pc = "loop"
    /\ i <= Len(metrics)
    /\ LET m == metrics[i]
           frameKey == getFrameKey(m)
       IN /\ HasFrame(metricFrames, frameKey)
          /\ LET r == extend(metricFrames[frameKey], m) IN
             /\ r.err # "nil"
             /\ metricFrames' = [metricFrames EXCEPT ![frameKey] = r.frame]
             /\ err' = r.err
             /\ frameWrappers' = ReturnError(frameKeyOrder, metricFrames')
    /\ pc' = "done"
    /\ UNCHANGED <<body, metrics, i, frameKeyOrder, again, prev>>

NewFrame ==
    /\ pc = "loop"
    /\ i <= Len(metrics)
    /\ LET m == metrics[i]
           frameKey == getFrameKey(m)
       IN /\ ~HasFrame(metricFrames, frameKey)
          /\ LET r == extend(newMetricFrame(m), m) IN
             /\ r.err = "nil"
             /\ frameKeyOrder' = Append(frameKeyOrder, frameKey)
             /\ metricFrames' = metricFrames @@ (frameKey :> r.frame)
    /\ i' = i + 1
    /\ UNCHANGED <<body, pc, metrics, frameWrappers, err, again, prev>>

NewFrameError ==
    /\ pc = "loop"
    /\ i <= Len(metrics)
    /\ LET m == metrics[i]
           frameKey == getFrameKey(m)
       IN /\ ~HasFrame(metricFrames, frameKey)
          /\ LET r == extend(newMetricFrame(m), m) IN
             /\ r.err # "nil"
             /\ frameKeyOrder' = Append(frameKeyOrder, frameKey)
             /\ err' = r.err
             /\ frameWrappers' = ReturnError(frameKeyOrder', metricFrames)
    /\ pc' = "done"
    /\ UNCHANGED <<body, metrics, i, metricFrames, again, prev>>

Return ==
    /\ pc = "loop"
    /\ i > Len(metrics)
    /\ frameWrappers' = ReturnFrames(frameKeyOrder, metricFrames)
    /\ pc' = "done"
    /\ UNCHANGED <<body, metrics, i, frameKeyOrder, metricFrames, err, again, prev>>

\* The caller converts the same body again with the same converter.
ConvertAgain ==
    /\ pc = "done"
    /\ ~again
    /\ again' = TRUE
    /\ prev' = frameWrappers
    /\ pc' = "parse"
    /\ metrics' = <<>>
    /\ i' = 0
    /\ frameKeyOrder' = <<>>
    /\ metricFrames' = NoFrames
    /\ frameWrappers' = NilResult
    /\ err' = "nil"
    /\ UNCHANGED body

Next ==
    \/ Parse
    \/ ParseError
    \/ ExistingFrame
    \/ ExistingFrameError
    \/ NewFrame
    \/ NewFrameError
    \/ Return
    \/ ConvertAgain

Spec == Init /\ [][Next]_vars

(* ------------------- the labels-column (wide) converter ---------------- *)

\* With the labels column, a frame is identified by the metric name alone.
getFrameKeyLabelsColumn(m) == m.name

\* A frame with a labels column and a time column and no rows yet.
newMetricFrameLabelsColumn(m) ==
    [key |-> m.name,
     fields |-> <<[Name |-> "labels", Type |-> [item |-> "string", nullable |-> FALSE],
                   Labels |-> {}, vals |-> <<>>],
                  [Name |-> "time", Type |-> [item |-> "time", nullable |-> FALSE],
                   Labels |-> {}, vals |-> <<>>]>>]

\* Position of the value column named key, 0 if there is none.
ColumnOf(fields, key) ==
    IF \E c \in 3..Len(fields) : fields[c].Name = key
    THEN CHOOSE c \in 3..Len(fields) : fields[c].Name = key
    ELSE 0

\* Sets field f in the row `row` that append has just added.
appendField(st, f, row) ==
    IF st.err # "nil" THEN st
    ELSE LET ft0 == FieldTypeFor(f.Value) IN
         IF ft0 = "unknown" THEN [st EXCEPT !.err = "unknown type"]
         ELSE LET ft == NullableType(ft0) IN
              IF ~HasConverter(ft) THEN [st EXCEPT !.err = "no converter"]
              ELSE LET c == ConvertValue(ft, f.Value)
                       at == ColumnOf(st.fields, f.Key)
                   IN IF c.err # "nil" THEN [st EXCEPT !.err = c.err]
                      ELSE IF at = 0
                      THEN [st EXCEPT !.fields = Append(@,
                              [NewFieldFromFieldType(ft, row) EXCEPT
                                  !.Name = f.Key, !.vals[row] = c.v])]
                      ELSE IF st.fields[at].Type # ft
                      THEN [st EXCEPT !.err = "type conflict"]
                      ELSE [st EXCEPT !.fields[at].vals[row] = c.v]

RECURSIVE appendFrom(_, _, _, _)
appendFrom(st, m, n, row) ==
    IF n > Len(m.fields) THEN st
    ELSE appendFrom(appendField(st, m.fields[n], row), m, n + 1, row)

\* Adds one row for m: its tag set, its time, its fields; null elsewhere.
appendMetric(s, m) ==
    LET row == Len(s.fields[1].vals) + 1
        grown == [c \in 1..Len(s.fields) |->
                     [s.fields[c] EXCEPT !.vals =
                         Append(@, IF c = 1 THEN m.tags
                                   ELSE IF c = 2 THEN m.time ELSE Null)]]
        st == appendFrom([fields |-> grown, err |-> "nil"], m, 1, row)
    IN [frame |-> [s EXCEPT !.fields = st.fields], err |-> st.err]

LabelsExisting ==
    /\ pc = "loop"
    /\ i <= Len(metrics)
    /\ LET m == metrics[i]
           frameKey == getFrameKeyLabelsColumn(m)
       IN /\ HasFrame(metricFrames, frameKey)
          /\ LET r == appendMetric(metricFrames[frameKey], m) IN
             /\ r.err = "nil"
             /\ metricFrames' = [metricFrames EXCEPT ![frameKey] = r.frame]
    /\ i' = i + 1
    /\ UNCHANGED <<body, pc, metrics, frameKeyOrder, frameWrappers, err, again, prev>>

\* A field arrives with a type other than its column's: Convert panics.
LabelsExistingPanic ==
    /\ pc = "loop"
    /\ i <= Len(metrics)
    /\ LET m == metrics[i]
           frameKey == getFrameKeyLabelsColumn(m)
       IN /\ HasFrame(metricFrames, frameKey)
          /\ LET r == appendMetric(metricFrames[frameKey], m) IN
             /\ r.err = "type conflict"
             /\ metricFrames' = [metricFrames EXCEPT ![frameKey] = r.frame]
             /\ err' = r.err
    /\ pc' = "panic"
    /\ UNCHANGED <<body, metrics, i, frameKeyOrder, frameWrappers, again, prev>>

LabelsExistingError ==
    /\ pc = "loop"
    /\ i <= Len(metrics)
    /\ LET m == metrics[i]
           frameKey == getFrameKeyLabelsColumn(m)
       IN /\ HasFrame(metricFrames, frameKey)
          /\ LET r == appendMetric(metricFrames[frameKey], m) IN
             /\ r.err \notin {"nil", "type conflict"}
             /\ metricFrames' = [metricFrames EXCEPT ![frameKey] = r.frame]
             /\ err' = r.err
             /\ frameWrappers' = ReturnError(frameKeyOrder, metricFrames')
    /\ pc' = "done"
    /\ UNCHANGED <<body, metrics, i, frameKeyOrder, again, prev>>

LabelsNew ==
    /\ pc = "loop"
    /\ i <= Len(metrics)
    /\ LET m == metrics[i]
           frameKey == getFrameKeyLabelsColumn(m)
       IN /\ ~HasFrame(metricFrames, frameKey)
          /\ LET r == appendMetric(newMetricFrameLabelsColumn(m), m) IN
             /\ r.err = "nil"
             /\ frameKeyOrder' = Append(frameKeyOrder, frameKey)
             /\ metricFrames' = metricFrames @@ (frameKey :> r.frame)
    /\ i' = i + 1
    /\ UNCHANGED <<body, pc, metrics, frameWrappers, err, again, prev>>

LabelsNewError ==
    /\ pc = "loop"
    /\ i <= Len(metrics)
    /\ LET m == metrics[i]
           frameKey == getFrameKeyLabelsColumn(m)
       IN /\ ~HasFrame(metricFrames, frameKey)
          /\ LET r == appendMetric(newMetricFrameLabelsColumn(m), m) IN
             /\ r.err # "nil"
             /\ frameKeyOrder' = Append(frameKeyOrder, frameKey)
             /\ err' = r.err
             /\ frameWrappers' = ReturnError(frameKeyOrder', metricFrames)
    /\ pc' = "done"
    /\ UNCHANGED <<body, metrics, i, metricFrames, again, prev>>

NextLabelsColumn ==
    \/ Parse
    \/ ParseError
    \/ LabelsExisting
    \/ LabelsExistingPanic
    \/ LabelsExistingError
    \/ LabelsNew
    \/ LabelsNewError
    \/ Return
    \/ ConvertAgain

SpecLabelsColumn == Init /\ [][NextLabelsColumn]_vars

\* Convert as a function of the decoded metrics: the loop over the metrics
\* from the n-th on, then the result.
RECURSIVE ConvertFrom(_, _, _, _)
ConvertFrom(ms, n, order, frames) ==
    IF n > Len(ms) THEN ReturnFrames(order, frames)
    ELSE LET m == ms[n]
             frameKey == getFrameKey(m)
         IN IF HasFrame(frames, frameKey)
            THEN LET r == extend(frames[frameKey], m) IN
                 IF r.err # "nil"
                 THEN ReturnError(order, [frames EXCEPT ![frameKey] = r.frame])
                 ELSE ConvertFrom(ms, n + 1, order,
                                  [frames EXCEPT ![frameKey] = r.frame])
            ELSE LET r == extend(newMetricFrame(m), m) IN
                 IF r.err # "nil"
                 THEN ReturnError(Append(order, frameKey), frames)
                 ELSE ConvertFrom(ms, n + 1, Append(order, frameKey),
                                  frames @@ (frameKey :> r.frame))

Convert(ms) == ConvertFrom(ms, 1, <<>>, NoFrames)

(* ------------------------- vocabulary of the claims -------------------- *)

\* Two records belong to the same group: same name, equal timestamps.
SameGroup(a, b) == a.name = b.name /\ a.time = b.time

Succeeded == pc = "done" /\ err = "nil"

\* The records folded so far.
Folded == IF pc = "loop" THEN 1..(i - 1) ELSE 1..Len(metrics)

Indices(n) == [j \in 1..n |-> j]

\* Indices of the records that open a group, in input order.
FirstSeen(ms) ==
    SelectSeq(Indices(Len(ms)),
              LAMBDA j : \A h \in 1..(j - 1) : ~SameGroup(ms[h], ms[j]))

\* Indices, among the first n records, of the records of j's group.
GroupOf(ms, n, j) ==
    SelectSeq(Indices(n), LAMBDA h : SameGroup(ms[h], ms[j]))

Groups(ms) == {<<ms[j].name, ms[j].time>> : j \in 1..Len(ms)}

RowCounts(s) == {Len(s.fields[c].vals) : c \in 1..Len(s.fields)}

\* Position in frameKeyOrder of the table record j was folded into.
TableOf(j) ==
    CHOOSE n \in 1..Len(frameKeyOrder) : frameKeyOrder[n] = getFrameKey(metrics[j])

Supported(ms) ==
    \A j \in 1..Len(ms) : \A c \in 1..Len(ms[j].fields) :
        ms[j].fields[c].Value.kind \in {"string", "float64", "int64", "bool"}

\* Records a and b of one group give the same field as integer and as float.
Conflict(ms, a, b) ==
    /\ SameGroup(ms[a], ms[b])
    /\ \E ca \in 1..Len(ms[a].fields), cb \in 1..Len(ms[b].fields) :
          /\ ms[a].fields[ca].Key = ms[b].fields[cb].Key
          /\ ms[a].fields[ca].Value.kind = "int64"
          /\ ms[b].fields[cb].Value.kind = "float64"

HasConflict(ms) == \E a, b \in 1..Len(ms) : Conflict(ms, a, b)

\* The orders in which a record's fields can be listed.
Perms(fs) ==
    {p \in [1..Len(fs) -> {fs[c] : c \in 1..Len(fs)}] :
        \A c \in 1..Len(fs) : \E d \in 1..Len(fs) : p[d] = fs[c]}

\* Name and tag set of every field of the records idxs, in order.
RECURSIVE FieldsOf(_, _)
FieldsOf(ms, idxs) ==
    IF idxs = <<>> THEN <<>>
    ELSE LET m == ms[Head(idxs)]
         IN [c \in 1..Len(m.fields) |->
                [Name |-> m.fields[c].Key, Labels |-> m.tags]]
            \o FieldsOf(ms, Tail(idxs))

\* How many of the records idxs carry a field named key.
Carrying(ms, idxs, key) ==
    Cardinality({h \in 1..Len(idxs) :
        \E c \in 1..Len(ms[idxs[h]].fields) : ms[idxs[h]].fields[c].Key = key})

Named(s, key) == Cardinality({c \in 2..Len(s.fields) : s.fields[c].Name = key})

FieldKeys == {"x", "y"}

(* -------------------------------- claims ------------------------------- *)

\* C1: a successful Convert returns exactly one table per distinct group, in
\* the order in which the groups first occur in the decoded records, and a
\* second Convert of the same body returns the same result.
C1_FirstSeenOrder ==
    /\ Succeeded =>
          LET first == FirstSeen(metrics) IN
          /\ ~frameWrappers.nil
          /\ Len(frameWrappers.items) = Len(first)
          /\ \A n \in 1..Len(first) :
                LET t == Frame(frameWrappers.items[n]) IN
                /\ t.Name = metrics[first[n]].name
                /\ t.Fields[1].vals = <<metrics[first[n]].time>>
    /\ (pc = "done" /\ again) => frameWrappers = prev

C1_Witness ==
    /\ Succeeded
    /\ again
    /\ Len(metrics) = 3
    /\ SameGroup(metrics[1], metrics[3])
    /\ ~SameGroup(metrics[1], metrics[2])
    /\ Len(frameWrappers.items) = 2

\* C2: two records are folded into the same table if and only if they have
\* the same name and exactly equal timestamps; the number of tables is the
\* number of distinct (name, timestamp) pairs, and a table is named after the
\* metric of its records.
C2_SameTableIffSameNameAndTime ==
    Succeeded =>
        /\ Len(frameWrappers.items) = Cardinality(Groups(metrics))
        /\ \A a, b \in 1..Len(metrics) :
              (TableOf(a) = TableOf(b)) <=> SameGroup(metrics[a], metrics[b])
        /\ \A a \in 1..Len(metrics) :
              Key(frameWrappers.items[TableOf(a)]) = metrics[a].name

C2_Witness ==
    /\ Succeeded
    /\ \E a, b, c \in 1..Len(metrics) :
          /\ metrics[a].name = metrics[b].name
          /\ metrics[a].time # metrics[b].time
          /\ metrics[a].name # metrics[c].name
          /\ metrics[a].time = metrics[c].time
    /\ Len(frameWrappers.items) = 3

\* C3: Convert has no partial success: when decoding or folding fails it
\* returns an error and no tables, however many tables were accumulated; it
\* fails whenever the body does not decode or a record has a value of a type
\* it cannot convert; otherwise it returns every table of the batch.
C3_NoPartialSuccess ==
    /\ err # "nil" => frameWrappers.nil /\ frameWrappers.items = <<>>
    /\ pc = "done" =>
          /\ err # "nil" <=> (~body.ok \/ ~Supported(body.metrics))
          /\ err = "nil" =>
                /\ ~frameWrappers.nil
                /\ Len(frameWrappers.items) = Cardinality(Groups(body.metrics))

C3_Witness ==
    /\ pc = "done"
    /\ err \in {"no converter", "unknown type"}
    /\ i = 3
    /\ Len(frameKeyOrder) = 2
    /\ DOMAIN metricFrames # {}

\* C4 as stated: the row count of an emitted table equals the number of
\* records merged under its group key.
C4_RowsEqualRecords ==
    Succeeded =>
        \A j \in 1..Len(metrics) :
            RowCounts(frameWrappers.items[TableOf(j)])
                = {Len(GroupOf(metrics, Len(metrics), j))}

\* C4, amended: every column of every emitted table has exactly one row,
\* however many records were merged under the table's group key.
C4_OneRowPerTable ==
    Succeeded =>
        \A n \in 1..Len(frameWrappers.items) :
            RowCounts(frameWrappers.items[n]) = {1}

C4_Witness ==
    /\ Succeeded
    /\ \E j \in 1..Len(metrics) :
          /\ Len(GroupOf(metrics, Len(metrics), j)) = 3
          /\ RowCounts(frameWrappers.items[TableOf(j)]) = {1}

\* C5 as stated: apart from the time column, the column names of an emitted
\* table are pairwise distinct.
C5_DistinctColumnNames ==
    Succeeded =>
        \A n \in 1..Len(frameWrappers.items) :
            LET fs == frameWrappers.items[n].fields IN
            \A c, d \in 2..Len(fs) : c # d => fs[c].Name # fs[d].Name

\* C5, amended: a table has, for every field name, as many columns of that
\* name as its group has records carrying the field; the names are pairwise
\* distinct only where no two records of the group share a field name.
C5_OneColumnPerRecordAndField ==
    Succeeded =>
        \A j \in 1..Len(metrics) : \A key \in FieldKeys :
            Named(frameWrappers.items[TableOf(j)], key)
                = Carrying(metrics, GroupOf(metrics, Len(metrics), j), key)

C5_Witness ==
    /\ Succeeded
    /\ \E n \in 1..Len(frameWrappers.items) :
          /\ Named(frameWrappers.items[n], "x") = 2
          /\ Named(frameWrappers.items[n], "y") = 1

\* C6 as stated: a batch in which two records of one group give a field as
\* an integer and as a float aborts Convert; no tables are returned.
C6_ConflictAborts ==
    (pc = "done" /\ HasConflict(metrics)) => frameWrappers.nil

\* C6, amended: such a batch does not abort Convert: unless some record has a
\* value of an unsupported type, Convert succeeds and the group's table has
\* a nullable int64 column and a nullable float64 column of that name.
C6_ConflictYieldsTwoColumns ==
    (pc = "done" /\ Supported(metrics)) =>
        \A a, b \in 1..Len(metrics) :
            Conflict(metrics, a, b) =>
                /\ err = "nil"
                /\ ~frameWrappers.nil
                /\ LET fs == frameWrappers.items[TableOf(a)].fields IN
                   \E c, d \in 2..Len(fs) :
                      /\ fs[c].Name = fs[d].Name
                      /\ fs[c].Type = [item |-> "int64", nullable |-> TRUE]
                      /\ fs[d].Type = [item |-> "float64", nullable |-> TRUE]
                      /\ ~fs[c].vals[1].null
                      /\ ~fs[d].vals[1].null

C6_Witness ==
    /\ Succeeded
    /\ Len(metrics) = 2
    /\ Conflict(metrics, 1, 2)
    /\ Len(frameWrappers.items) = 1

\* C7: a batch of one record yields the same tables whatever the order in
\* which the record's fields are listed.
C7_FieldOrderIndependent ==
    (Succeeded /\ Len(metrics) = 1) =>
        \A p \in Perms(metrics[1].fields) :
            Convert(<<[metrics[1] EXCEPT !.fields = p]>>) = frameWrappers

\* Records of ms that carry the name of record j.
SameName(ms, j) == {h \in 1..Len(ms) : ms[h].name = ms[j].name}

KeysOf(ms, idxs) ==
    UNION {{ms[h].fields[c].Key : c \in 1..Len(ms[h].fields)} : h \in idxs}

TagKeysOf(ms, idxs) == UNION {{t[1] : t \in ms[h].tags} : h \in idxs}

\* Position in frameKeyOrder of the labels-column table of record j.
LabelsTableOf(j) ==
    CHOOSE n \in 1..Len(frameKeyOrder) :
        frameKeyOrder[n] = getFrameKeyLabelsColumn(metrics[j])

ColumnNames(s) == {s.fields[c].Name : c \in 1..Len(s.fields)}

C9_EqualColumnLengths ==
    /\ \A k \in DOMAIN metricFrames : Cardinality(RowCounts(metricFrames[k])) = 1
    /\ \A n \in 1..Len(frameWrappers.items) :
          Cardinality(RowCounts(frameWrappers.items[n])) = 1

C9_Witness ==
    /\ pc = "loop"
    /\ \E k \in DOMAIN metricFrames : Len(metricFrames[k].fields) >= 4

\* C10: after records r1..rk have been folded under one group key, the
\* table's columns are the time column holding r1's timestamp, then one
\* column per field of r1, then of r2, and so on, each carrying the tag set
\* of its record: 1 + (sum of the field counts) columns.
C10_ColumnsInFoldOrder ==
    (pc \in {"loop", "done"} /\ err = "nil") =>
        \A j \in Folded :
            LET s == metricFrames[getFrameKey(metrics[j])]
                grp == GroupOf(metrics, Cardinality(Folded), j)
                cols == FieldsOf(metrics, grp)
            IN /\ Len(s.fields) = 1 + Len(cols)
               /\ s.fields[1].Name = "time"
               /\ s.fields[1].vals = <<metrics[grp[1]].time>>
               /\ \A c \in 1..Len(cols) :
                     /\ s.fields[c + 1].Name = cols[c].Name
                     /\ s.fields[c + 1].Labels = cols[c].Labels

C10_Witness ==
    /\ Succeeded
    /\ \E k \in DOMAIN metricFrames :
          LET fs == metricFrames[k].fields IN
          /\ Len(fs) = 5
          /\ fs[2].Labels # fs[5].Labels

TypeOK ==
    /\ pc \in {"parse", "loop", "done", "panic"}
    /\ again \in BOOLEAN
    /\ \A n \in 1..Len(body.metrics) : UniqueKeys(body.metrics[n].fields)
====
